---- MODULE Spec2Model ----
(***************************************************************************)
(* skicka: a rendezvous relay.  POST / registers the request body as a     *)
(* pending connection and answers with a held-open response; GET /<id>     *)
(* claims the connection and relays the body; a per-connection task reaps  *)
(* the connection if it was not claimed before initial_timeout.            *)
(* Model of src/src/main.rs.  Time is abstracted: a timer that is running  *)
(* may fire at any moment (TimedSpec puts the relay under a clock).  Every *)
(* critical section of the connections mutex contains no await and a       *)
(* handler touches no shared state before it holds the mutex, so a handler *)
(* from its arrival to the end of its critical section is one atomic       *)
(* action; concurrent requests are the orders in which the mutex serves    *)
(* them.                                                                   *)
(***************************************************************************)
EXTENDS Integers, Sequences, FiniteSets, TLC

\* ------------------------------------------------------------------ bounds
\* Requests (POST / and GET /<id> together) of a run.
MaxRequests == 4
\* Names the generator can produce.
NumIds == 3
\* Chunks (data or error) that all request bodies yield over a run.
MaxChunks == 2

\* ------------------------------------------------------- program constants
\* Args.max_active_connections (a small configured value).
max_active_connections == 2
\* Args.max_transfer_size (a small configured value, in bytes).
max_transfer_size == 2
\* The retry ceiling of the id loop: `if tries >= 64`.
MaxTries == 64

\* The POST requests and the GET requests, each numbered in arrival order.
Senders == 1..MaxRequests
Receivers == 1..MaxRequests
Ids == 1..NumIds
\* Returned by the id loop when it gives up.
NoId == 0
\* "No body" in a GET request that obtained nothing.
NoStream == 0
\* The item `String::default()` that ends the POST response (an id line is
\* modelled by its id).
EmptyLine == 0

\* Result<Bytes, Error>: a data chunk of len bytes, or a transport error.
OkChunk(n) == [ok |-> TRUE, len |-> n]
ErrChunk == [ok |-> FALSE, len |-> 0]
\* The chunks a body may yield: data of 1..max_transfer_size bytes, or an error.
Chunks == {OkChunk(n) : n \in 1..max_transfer_size} \cup {ErrChunk}

VARIABLES
    connections,          \* State.connections: id -> Connection
    next_connection_idx,  \* State.next_connection_idx
    send,                 \* the POST requests: pc, status, id and idx
    reaper,               \* the task spawned per admitted POST
    on_completed,         \* the oneshot channel created by POST request s
    response,             \* the body stream of the POST response of s
    recv,                 \* the GET requests: pc, id, status, obtained body
    relay,                \* the stream! generator relaying the body of s
    file_body,            \* chunks read so far from the body of POST s
    forwarded,            \* chunks the relay of s yielded to its receiver
    now,                  \* the clock of the runtime (tokio::time), in ticks
    idloop,               \* one run of the id loop: its inputs and its result
    routed                \* one request in handle: method, path and its handler

vars == <<connections, next_connection_idx, send, reaper, on_completed,
          response, recv, relay, file_body, forwarded, now, idloop, routed>>

\* The requests that have arrived so far.
Requests ==
    Cardinality({s \in Senders : send[s].pc # "idle"})
    + Cardinality({r \in Receivers : recv[r].pc # "idle"})

\* The names that occurred in a request or a response so far.
UsedNames ==
    ({send[s].id : s \in Senders} \cup {recv[r].id : r \in Receivers}) \ {NoId}

\* The code only compares names for equality, so every run is a renaming of
\* one in which each name that occurs for the first time is the least name
\* not used before: these are the names a request may bring or be given.
Names ==
    UsedNames \cup {i \in Ids \ UsedNames : \A j \in Ids \ UsedNames : i <= j}

\* The empty HashMap.
NoConnections == [i \in {} |-> 0]

\* No request in handle.
NoRequest == [pc |-> "idle", method |-> "", path |-> 0, handler |-> ""]

\* No run of the id loop observed.
NoRun == [pc |-> "idle", gen |-> [k |-> 0, c |-> NoId, d |-> NoId], pending |-> {}, id |-> NoId]

\* ------------------------------------------------------------------ Init
Init ==
    /\ connections = NoConnections
    /\ next_connection_idx = 0
    /\ send = [s \in Senders |-> [pc |-> "idle", status |-> 0, id |-> NoId, idx |-> 0]]
    /\ reaper = [s \in Senders |-> [pc |-> "none", id |-> NoId, idx |-> 0, reaped |-> FALSE]]
    /\ on_completed = [s \in Senders |-> "none"]
    /\ response = [s \in Senders |-> [out |-> <<>>, open |-> FALSE]]
    /\ recv = [r \in Receivers |-> [pc |-> "idle", id |-> NoId, status |-> 0, stream |-> NoStream]]
    /\ relay = [s \in Senders |-> [pc |-> "none", transferred_bytes |-> 0, reason |-> "",
                                    started |-> 0, wait_start |-> 0]]
    /\ file_body = [s \in Senders |-> <<>>]
    /\ forwarded = [s \in Senders |-> <<>>]
    /\ now = 0
    /\ idloop = NoRun
    /\ routed = NoRequest

\* ------------------------------------------------------- HashMap operations
\* HashMap::contains_key.
ContainsKey(conns, id) == id \in DOMAIN conns

\* HashMap::len.
Len_(conns) == Cardinality(DOMAIN conns)

\* HashMap::insert: the entry of id becomes c (a previous entry is replaced).
Insert(conns, id, c) ==
    [i \in DOMAIN conns \cup {id} |-> IF i = id THEN c ELSE conns[i]]

\* HashMap::remove: the map without the entry of id.
Remove(conns, id) == [i \in DOMAIN conns \ {id} |-> conns[i]]

\* Dropping a Connection drops its oneshot::Sender unsent: the receiving half
\* resolves with an error.  chan is the channel's state before the drop.
DropSender(chan) == IF chan = "held" THEN "dropped" ELSE chan

\* ------------------------------------------------------------ handle_send
\* Mutant of AtCapacity: `>` for `>=`.
AtCapacityOffByOne(conns) == Len_(conns) > max_active_connections

\* `connections.len() >= state.args.max_active_connections`.
AtCapacity(conns) == Len_(conns) >= max_active_connections

\* The names the generator returns on the successive calls of one id loop.
\* The outcome of the loop depends only on how many names that collide come
\* before the first other one: a run is k times the pending name d, then the
\* name c (which may be pending as well).
Collisions == {MaxTries - 2, MaxTries - 1}
Generators(conns) ==
    [k : {0}, c : Names, d : {NoId}] \cup [k : Collisions, c : Names, d : DOMAIN conns]

\* `names::Generator::default().next().unwrap()`: the t-th name of the run gen.
NextName(gen, t) == IF t <= gen.k THEN gen.d ELSE gen.c

\* Mutant of IdLoop: the first name is taken without `contains_key`.
IdLoopNoCheck(tries, gen, conns) == NextName(gen, tries + 1)

\* The id loop: `tries += 1; if tries >= 64 { reject }; id = next();
\* if !contains_key(id) { break id }`.  tries is the count before this turn.
RECURSIVE IdLoop(_, _, _)
IdLoop(tries, gen, conns) ==
    LET t == tries + 1 IN
    IF t >= MaxTries THEN NoId
    ELSE IF ~ContainsKey(conns, NextName(gen, t)) THEN NextName(gen, t)
    ELSE IdLoop(t, gen, conns)

\* Mutant of SendReject: the sequence number is drawn before the checks.
SendRejectConsumesIdx(s) ==
    /\ send' = [send EXCEPT ![s].pc = "done", ![s].status = 503]
    /\ next_connection_idx' = next_connection_idx + 1
    /\ UNCHANGED <<connections, reaper, on_completed, response, recv, relay,
                   file_body, forwarded, now, idloop, routed>>

\* `return Ok(err_server_overloaded())`: both rejections of handle_send.
SendReject(s) ==
    /\ send' = [send EXCEPT ![s].pc = "done", ![s].status = 503]
    /\ UNCHANGED <<connections, next_connection_idx, reaper, on_completed,
                   response, recv, relay, file_body, forwarded, now, idloop,
                   routed>>

\* The rest of handle_send once the id loop broke with id: fetch_add, the
\* oneshot channel, the insert, the response stream and the spawned reaper.
SendAdmit(s, id) ==
    LET idx == next_connection_idx
        connection == [idx |-> idx, file_body |-> s, on_completed |-> s]
    IN  /\ next_connection_idx' = idx + 1
        /\ connections' = Insert(connections, id, connection)
        /\ on_completed' =
             [c \in Senders |->
                IF c = s THEN "held"
                ELSE IF ContainsKey(connections, id) /\ connections[id].on_completed = c
                     THEN DropSender(on_completed[c])
                     ELSE on_completed[c]]
        /\ send' = [send EXCEPT ![s] = [pc |-> "done", status |-> 200, id |-> id, idx |-> idx]]
        /\ response' = [response EXCEPT ![s] = [out |-> <<id>>, open |-> TRUE]]
        /\ reaper' = [reaper EXCEPT ![s] = [pc |-> "sleeping", id |-> id, idx |-> idx, reaped |-> FALSE]]
        /\ UNCHANGED <<recv, relay, file_body, forwarded, now, idloop, routed>>

\* handle_send: a POST / arrives and takes the mutex.
HandleSend(s) ==
    /\ send[s].pc = "idle"
    /\ s > 1 => send[s - 1].pc # "idle"
    /\ Requests < MaxRequests
    /\ \E gen \in Generators(connections) :
         IF AtCapacity(connections) THEN SendReject(s)
         ELSE LET id == IdLoop(0, gen, connections) IN
              IF id = NoId THEN SendReject(s) ELSE SendAdmit(s, id)

\* ----------------------------------------------------------- reaper task
\* Mutant of IsStale: the record is looked up by its id alone.
IsStaleIgnoresIdx(conns, id, idx) == ContainsKey(conns, id)

\* Mutant of IsStale: the comparison of the sequence numbers inverted.
IsStaleInverted(conns, id, idx) == ContainsKey(conns, id) /\ conns[id].idx # idx

\* `connections.get(&id).map_or(false, |connection| connection.idx == idx)`.
IsStale(conns, id, idx) == ContainsKey(conns, id) /\ conns[id].idx = idx

\* Mutant of Reap: the timeout bounds the transfer as well, the task ends the
\* upload it was spawned for whether or not its record is still stored.
ReapEndsTransfer(s) ==
    /\ reaper[s].pc = "sleeping"
    /\ LET stale == IsStale(connections, reaper[s].id, reaper[s].idx)
       IN  /\ connections' = IF stale THEN Remove(connections, reaper[s].id) ELSE connections
           /\ reaper' = [reaper EXCEPT ![s].pc = "done", ![s].reaped = stale]
    /\ on_completed' = [on_completed EXCEPT ![s] = DropSender(@)]
    /\ UNCHANGED <<next_connection_idx, send, now, idloop, routed, response,
                   recv, relay, file_body, forwarded>>

\* The spawned task after its sleep: the timer fired and the task holds the
\* mutex.  Removing the Connection drops its stream and its oneshot::Sender.
Reap(s) ==
    /\ reaper[s].pc = "sleeping"
    /\ LET id == reaper[s].id
           idx == reaper[s].idx
       IN  IF IsStale(connections, id, idx)
           THEN /\ connections' = Remove(connections, id)
                /\ on_completed' =
                     [on_completed EXCEPT ![connections[id].on_completed] = DropSender(@)]
                /\ reaper' = [reaper EXCEPT ![s].pc = "done", ![s].reaped = TRUE]
           ELSE /\ reaper' = [reaper EXCEPT ![s].pc = "done"]
                /\ UNCHANGED <<connections, on_completed>>
    /\ UNCHANGED <<next_connection_idx, send, now, idloop, routed, response,
                   recv, relay, file_body, forwarded>>

\* Mutant of Resolved: the response does not wait for the channel.
ResolvedAtOnce(chan) == TRUE

\* `on_completed_rx.into_stream()` yields its one item once the channel
\* resolved: () was sent, or the oneshot::Sender was dropped.
Resolved(chan) == chan \in {"sent", "dropped"}

\* The POST response stream: after the id line it waits on on_completed_rx;
\* when that resolves it emits `String::default()` and ends.
PostClose(s) ==
    /\ response[s].open
    /\ Resolved(on_completed[s])
    /\ response' = [response EXCEPT ![s] = [out |-> Append(@.out, EmptyLine), open |-> FALSE]]
    /\ UNCHANGED <<connections, next_connection_idx, send, now, idloop, routed,
                   reaper, on_completed, recv, relay, file_body, forwarded>>

\* ------------------------------------------------------------ handle_recv
\* Mutant of Claim: the record is looked up (`get`) but left in the map.
ClaimKeepsRecord(conns, id) == conns

\* The map after `state.connections.lock().await.remove(&id)`.
Claim(conns, id) == Remove(conns, id)

\* Mutant of RecvNotFound: a miss leaves an entry behind (`entry(id)`).
RecvNotFoundInserts(r, id) ==
    /\ recv' = [recv EXCEPT ![r] = [pc |-> "done", id |-> id, status |-> 404, stream |-> NoStream]]
    /\ connections' = Insert(connections, id, [idx |-> next_connection_idx,
                                                file_body |-> NoStream, on_completed |-> NoStream])
    /\ UNCHANGED <<next_connection_idx, send, now, idloop, routed, reaper,
                   on_completed, response, relay, file_body, forwarded>>

\* `state.connections.lock().await.remove(&id)` returned None.
RecvNotFound(r, id) ==
    /\ recv' = [recv EXCEPT ![r] = [pc |-> "done", id |-> id, status |-> 404, stream |-> NoStream]]
    /\ UNCHANGED <<connections, next_connection_idx, send, now, idloop, routed,
                   reaper, on_completed, response, relay, file_body,
                   forwarded>>

\* `remove(&id)` returned the Connection: its file_body and on_completed move
\* into the stream! generator, which is the body of the 200 response.
RecvFuse(r, id) ==
    LET connection == connections[id]
    IN  /\ connections' = Claim(connections, id)
        /\ recv' = [recv EXCEPT ![r] = [pc |-> "done", id |-> id, status |-> 200,
                                        stream |-> connection.file_body]]
        /\ relay' = [relay EXCEPT ![connection.file_body] =
                        [pc |-> "select", transferred_bytes |-> 0, reason |-> "",
                         started |-> now, wait_start |-> now]]
        /\ UNCHANGED <<next_connection_idx, send, now, idloop, routed, reaper,
                       on_completed, response, file_body, forwarded>>

\* handle_recv: a GET /<id> arrives and takes the mutex.
HandleRecv(r, id) ==
    /\ recv[r].pc = "idle"
    /\ r > 1 => recv[r - 1].pc # "idle"
    /\ Requests < MaxRequests
    /\ IF ContainsKey(connections, id) THEN RecvFuse(r, id) ELSE RecvNotFound(r, id)

\* ------------------------------------------------- the relay (stream! block)
\* pc "select": inside select!, waiting for file_body.next() or the timeout.
\* pc "yield":  suspended at `yield chunk` until the response is polled again.
\* pc "done":   the loop broke with a reason, on_completed was sent, the
\*              stream ended.
\* pc "dropped": the response body was dropped before the stream ended.
\* started is the instant of the claim, wait_start the instant at which the
\* current turn of the loop began and created its timeout.

\* The chunks that `file_body.next()` returned so far, over all bodies.
TotalChunks == LET RECURSIVE Sum(_)
                   Sum(s) == IF s = 0 THEN 0 ELSE Len(file_body[s]) + Sum(s - 1)
               IN  Sum(MaxRequests)

\* Mutant of ReachedLimit: `>` for `>=`.
ReachedLimitOffByOne(bytes) == bytes > max_transfer_size

\* `transferred_bytes >= state.args.max_transfer_size`.
ReachedLimit(bytes) == bytes >= max_transfer_size

\* `transferred_bytes += chunk.len()` for an Ok chunk; an Err chunk adds nothing.
Transferred(bytes, chunk) == IF chunk.ok THEN bytes + chunk.len ELSE bytes

\* Mutant of Yield: the chunk is handed on twice.
YieldTwice(out, chunk) == Append(Append(out, chunk), chunk)

\* Mutant of Yield: only data is handed on, an error chunk is dropped.
YieldOkOnly(out, chunk) == IF chunk.ok THEN Append(out, chunk) ELSE out

\* `yield chunk`: the chunk just read is the next item of the response body.
Yield(out, chunk) == Append(out, chunk)

\* After the loop: the log line and `_ = on_completed.send(())`.
Completed(chan) == IF chan = "held" THEN "sent" ELSE chan

\* `break reason` and the code after the loop; the stream then ends.
RelayBreak(s, bytes, reason) ==
    /\ relay' = [relay EXCEPT ![s].pc = "done", ![s].transferred_bytes = bytes,
                              ![s].reason = reason]
    /\ on_completed' = [on_completed EXCEPT ![s] = Completed(@)]

\* select! arm `chunk = file_body.next()` with Some(chunk).
RelayChunk(s, chunk) ==
    /\ relay[s].pc = "select"
    /\ TotalChunks < MaxChunks
    /\ file_body' = [file_body EXCEPT ![s] = Append(@, chunk)]
    /\ LET bytes == Transferred(relay[s].transferred_bytes, chunk) IN
       IF chunk.ok /\ ReachedLimit(bytes)
       THEN /\ RelayBreak(s, bytes, "reached transfer size limit")
            /\ UNCHANGED forwarded
       ELSE /\ relay' = [relay EXCEPT ![s].pc = "yield", ![s].transferred_bytes = bytes]
            /\ forwarded' = [forwarded EXCEPT ![s] = Yield(@, chunk)]
            /\ UNCHANGED on_completed
    /\ UNCHANGED <<connections, next_connection_idx, send, now, idloop, routed,
                   reaper, response, recv>>

\* select! arm `chunk = file_body.next()` with None.
RelayEnd(s) ==
    /\ relay[s].pc = "select"
    /\ RelayBreak(s, relay[s].transferred_bytes, "transfer completed")
    /\ UNCHANGED <<connections, next_connection_idx, send, now, idloop, routed,
                   reaper, response, recv, file_body, forwarded>>

\* select! arm `_ = &mut timeout`.
RelayTimeout(s) ==
    /\ relay[s].pc = "select"
    /\ RelayBreak(s, relay[s].transferred_bytes, "reached chunk time limit")
    /\ UNCHANGED <<connections, next_connection_idx, send, now, idloop, routed,
                   reaper, response, recv, file_body, forwarded>>

\* The receiver took the yielded chunk: the response body is polled again and
\* the generator resumes at the top of the loop, where it creates the timeout
\* of the next wait.
RecvPoll(s) ==
    /\ relay[s].pc = "yield"
    /\ relay' = [relay EXCEPT ![s].pc = "select", ![s].wait_start = now]
    /\ UNCHANGED <<connections, next_connection_idx, send, now, idloop, routed,
                   reaper, on_completed, response, recv, file_body, forwarded>>

\* The receiver disconnected: the response body, hence the generator with its
\* file_body and its oneshot::Sender, is dropped where it stands.
RecvDisconnect(s) ==
    /\ relay[s].pc \in {"select", "yield"}
    /\ relay' = [relay EXCEPT ![s].pc = "dropped"]
    /\ on_completed' = [on_completed EXCEPT ![s] = DropSender(@)]
    /\ UNCHANGED <<connections, next_connection_idx, send, now, idloop, routed,
                   reaper, response, recv, file_body, forwarded>>

\* ------------------------------------------------------------------ Next
Next ==
    \/ \E s \in Senders : HandleSend(s)
    \/ \E s \in Senders : Reap(s)
    \/ \E s \in Senders : PostClose(s)
    \/ \E r \in Receivers, id \in Names : HandleRecv(r, id)
    \/ \E s \in Senders, chunk \in Chunks : RelayChunk(s, chunk)
    \/ \E s \in Senders : RelayEnd(s)
    \/ \E s \in Senders : RelayTimeout(s)
    \/ \E s \in Senders : RecvPoll(s)
    \/ \E s \in Senders : RecvDisconnect(s)

Spec == Init /\ [][Next]_vars

\* The select! of a running relay: one of its arms completes.
RelaySelect(s) ==
    \/ \E chunk \in Chunks : RelayChunk(s, chunk)
    \/ RelayEnd(s)
    \/ RelayTimeout(s)

\* What the runtime guarantees: a sleep ends and its task runs (the reaper;
\* the timeout arm of a relay that is being polled), and a response stream
\* whose channel resolved is polled to its end.  Nothing obliges a client to
\* send a request, to read a response or to close a connection.
Fairness ==
    \A s \in Senders :
        /\ WF_vars(Reap(s))
        /\ WF_vars(PostClose(s))
        /\ WF_vars(RelaySelect(s))

FairSpec == Spec /\ Fairness

\* ---------------------------------------------------- the relay under a clock
\* Spec abstracts time: now stays 0 and a timeout may fire at any moment.
\* TimedSpec lets the clock tick and makes the timeout of the relay fire when
\* its sleep completes.  (The sleep of the reaper stays abstract.)

\* Ticks of a run.
MaxTime == 3
\* Args.chunk_timeout (a small configured value, in ticks).
chunk_timeout == 2

\* Mutant of Timeout: one sleep for the whole transfer, created before the
\* loop.
TimeoutOnce(r) == r.started + chunk_timeout

\* `let timeout = time::sleep(state.args.chunk_timeout)` at the top of every
\* turn of the loop: the instant at which this sleep completes.
Timeout(r) == r.wait_start + chunk_timeout

\* Time passes.  The runtime wakes a relay that waits in select! when its
\* sleep completes, so no time passes beyond that instant while it waits; a
\* relay suspended at `yield chunk` has no sleep.
Tick ==
    /\ now < MaxTime
    /\ \A s \in Senders : relay[s].pc = "select" => now < Timeout(relay[s])
    /\ now' = now + 1
    /\ UNCHANGED <<connections, next_connection_idx, send, reaper,
                   on_completed, response, recv, relay, file_body, forwarded,
                   idloop, routed>>

\* Next under the clock: an arm of select! completes when its future is
\* ready, file_body.next() before the sleep completes, the timeout when it does.
TimedNext ==
    \/ Tick
    \/ \E s \in Senders : HandleSend(s)
    \/ \E s \in Senders : Reap(s)
    \/ \E s \in Senders : PostClose(s)
    \/ \E r \in Receivers, id \in Names : HandleRecv(r, id)
    \/ \E s \in Senders, chunk \in Chunks : now < Timeout(relay[s]) /\ RelayChunk(s, chunk)
    \/ \E s \in Senders : now < Timeout(relay[s]) /\ RelayEnd(s)
    \/ \E s \in Senders : now >= Timeout(relay[s]) /\ RelayTimeout(s)
    \/ \E s \in Senders : RecvPoll(s)
    \/ \E s \in Senders : RecvDisconnect(s)

TimedSpec == Init /\ [][TimedNext]_vars

\* ------------------------------------------------------ the id loop alone
\* The registry the loop finds holds the records of the ids in P: the
\* capacity check passed, so fewer than max_active_connections.
Registry(P) == [i \in P |-> [idx |-> 0, file_body |-> NoStream, on_completed |-> NoStream]]

\* The runs of the generator: k times the pending name d, then the name c.
Runs(P) ==
    [k : {0}, c : Ids, d : {NoId}] \cup [k : 1..(MaxTries + 1), c : Ids, d : P]

\* One run of the id loop of handle_send, on a registry and a run of the
\* generator; id is the id it broke with, NoId if it gave up.
RunIdLoop ==
    /\ idloop.pc = "idle"
    /\ \E P \in SUBSET Ids :
         /\ Cardinality(P) < max_active_connections
         /\ \E gen \in Runs(P) :
              idloop' = [pc |-> "done", gen |-> gen, pending |-> P,
                         id |-> IdLoop(0, gen, Registry(P))]
    /\ UNCHANGED <<connections, next_connection_idx, send, reaper,
                   on_completed, response, recv, relay, file_body, forwarded,
                   now, routed>>

\* --------------------------------------------------------- handle alone
\* The path "/" (a path /<id> is modelled by its id).
Root == 0
\* The methods and the paths a request comes with.
Methods == {"GET", "POST", "PUT"}
Paths == {Root} \cup Ids

\* `match (request.method(), request.uri().path())`: the arm that takes the
\* request.  The arms are (GET, "/"), (POST, "/") and (GET, id); `_ => {}`
\* falls through to `Ok(err_not_found(None))`.
Route(m, path) ==
    IF m = "GET" /\ path = Root THEN "handle_index"
    ELSE IF m = "POST" /\ path = Root THEN "handle_send"
    ELSE IF m = "GET" THEN "handle_recv"
    ELSE "err_not_found"

\* handle on one request: the handler it is given to.  Spec starts from the
\* requests that reach handle_send and handle_recv; the others (the index
\* page, the 404) touch no state.
RunRoute ==
    /\ routed.pc = "idle"
    /\ \E m \in Methods, path \in Paths :
         routed' = [pc |-> "done", method |-> m, path |-> path, handler |-> Route(m, path)]
    /\ UNCHANGED <<connections, next_connection_idx, send, reaper,
                   on_completed, response, recv, relay, file_body, forwarded,
                   now, idloop>>

\* The two functions on their inputs.
FunctionNext == RunIdLoop \/ RunRoute

FunctionSpec == Init /\ [][FunctionNext]_vars

\* ================================================================ claims
\* The step handles the POST request s / the GET request r.
SendStep(s) == send[s].pc = "idle" /\ send'[s].pc = "done"
RecvStep(r) == recv[r].pc = "idle" /\ recv'[r].pc = "done"

\* The record that POST s inserted is still in the registry.
Pending(s) ==
    /\ send[s].status = 200
    /\ ContainsKey(connections, send[s].id)
    /\ connections[send[s].id].idx = send[s].idx

\* The relay of the body of POST s is running.
Running(s) == relay[s].pc \in {"select", "yield"}

\* The GET requests that obtained the body of POST s.
Claimants(s) == {r \in Receivers : recv[r].stream = s}

\* What the finished GET requests hold, and what one GET does.
C1_Claimed ==
    /\ \A s \in Senders : Cardinality(Claimants(s)) <= 1
    /\ \A r \in Receivers :
        /\ recv[r].status = 200 <=> recv[r].stream # NoStream
        /\ recv[r].pc = "done" => recv[r].status \in {200, 404}

C1_ClaimStep ==
    \A r \in Receivers : RecvStep(r) =>
        LET id == recv'[r].id IN
        IF ContainsKey(connections, id)
        THEN /\ recv'[r].status = 200
             /\ recv'[r].stream = connections[id].file_body
             /\ ~ContainsKey(connections', id)
        ELSE /\ recv'[r].status = 404
             /\ recv'[r].stream = NoStream

\* C1: at most one claim.  No body is ever obtained by two GET requests, a
\* GET answers 200 exactly when it obtained a body and 404 otherwise; and a
\* GET for an id answers 200 exactly when the id is pending at that moment,
\* obtains the body stored under it and removes the record, so that every
\* later GET for the id finds it absent.
C1_AtMostOneClaim == []C1_Claimed /\ [][C1_ClaimStep]_vars

\* C1 witness: two GET requests for the id of one upload; the first obtained
\* its body, the second was answered 404.
C1_Witness ==
    \E r1, r2 \in Receivers :
        /\ r1 < r2
        /\ recv[r1].id = recv[r2].id
        /\ recv[r1].status = 200
        /\ recv[r2].status = 404
        /\ next_connection_idx = 1

\* The size of the registry, and how one request or one reaper changes it.
C2_Bounded == Len_(connections) <= max_active_connections

C2_Step ==
    /\ \A s \in Senders : SendStep(s) =>
        /\ Len_(connections) >= max_active_connections =>
              send'[s].status = 503 /\ connections' = connections
        /\ send'[s].status = 200 => Len_(connections') = Len_(connections) + 1
    /\ \A r \in Receivers : RecvStep(r) /\ recv'[r].status = 200 =>
          Len_(connections') = Len_(connections) - 1
    /\ \A s \in Senders : ~reaper[s].reaped /\ reaper'[s].reaped =>
          Len_(connections') = Len_(connections) - 1

\* C2: capacity enforcement.  The registry never holds more than
\* max_active_connections records; a POST that arrives while that many are
\* pending is answered 503 and leaves the registry as it was; a claim and a
\* reap each lower the number of pending records by exactly one; and an
\* admitted POST raises it by exactly one.
C2_Capacity == []C2_Bounded /\ [][C2_Step]_vars

\* C2 witness: the first max_active_connections POST requests were admitted
\* and are all still pending, and the next POST was answered 503.
C2_Witness ==
    /\ Len_(connections) = max_active_connections
    /\ next_connection_idx = max_active_connections
    /\ \A s \in 1..max_active_connections : send[s].status = 200
    /\ send[max_active_connections + 1].status = 503

\* What the reaper of one upload does when it fires.
C3_ReapStep ==
    \A s \in Senders : reaper[s].pc = "sleeping" /\ reaper'[s].pc = "done" =>
        IF Pending(s)
        THEN /\ reaper'[s].reaped
             /\ ~ContainsKey(connections', send[s].id)
             /\ on_completed'[s] = "dropped"
        ELSE /\ ~reaper'[s].reaped
             /\ UNCHANGED <<connections, on_completed>>

\* C3: reaping.  When the reaper of an upload fires while its record is still
\* pending, the record leaves the registry, no record is stored under its id
\* any more and its completion channel resolves; every pending record
\* eventually leaves the registry, and the POST response of a reaped upload
\* eventually closes.
C3_Reaping ==
    /\ [][C3_ReapStep]_vars
    /\ \A s \in Senders :
        /\ Pending(s) ~> ~Pending(s)
        /\ reaper[s].reaped ~> (reaper[s].reaped /\ ~response[s].open)

\* C3 witness: the only upload of the run was reaped, its record is gone, its
\* POST response has closed, and a GET for its id was answered 404.
C3_Witness ==
    \E s \in Senders, r \in Receivers :
        /\ reaper[s].reaped
        /\ ~response[s].open
        /\ recv[r].id = send[s].id
        /\ recv[r].status = 404
        /\ ~ContainsKey(connections, send[s].id)
        /\ next_connection_idx = 1

\* C4: after a record is claimed, the POST response of that upload
\* eventually closes, whatever the sender and the receiver do.
C4_NeverHangs ==
    \A s \in Senders : (relay[s].pc # "none") ~> ~response[s].open

\* C5: the POST response emits the id line first and stays open while its
\* record is pending or its relay is running; when it has closed, the record
\* was reaped or the relay has ended, and it emitted the id line and the
\* final empty item, nothing else.
C5_HeldOpen ==
    \A s \in Senders :
        /\ send[s].status # 200 => response[s] = [out |-> <<>>, open |-> FALSE]
        /\ send[s].status = 200 =>
            /\ response[s].open => response[s].out = <<send[s].id>>
            /\ Pending(s) \/ Running(s) => response[s].open
            /\ ~response[s].open =>
                /\ response[s].out = <<send[s].id, EmptyLine>>
                /\ reaper[s].reaped \/ relay[s].pc \in {"done", "dropped"}

\* C5 witness: the relay of an upload ended after forwarding a chunk, and
\* its POST response has closed.
C5_Witness ==
    \E s \in Senders :
        /\ relay[s].pc = "done"
        /\ forwarded[s] # <<>>
        /\ ~response[s].open

\* The bytes of the data chunks of a sequence of chunks.
RECURSIVE Bytes(_)
Bytes(chunks) ==
    IF chunks = <<>> THEN 0
    ELSE (IF Head(chunks).ok THEN Head(chunks).len ELSE 0) + Bytes(Tail(chunks))

\* C6: size enforcement.  The bytes forwarded to the receiver never exceed
\* max_transfer_size; and once the bytes read from the sender reach
\* max_transfer_size the relay has terminated with the reason "reached
\* transfer size limit" and forwarded nothing of the chunk that reached it.
C6_SizeEnforced ==
    \A s \in Senders :
        /\ Bytes(forwarded[s]) <= max_transfer_size
        /\ Bytes(file_body[s]) >= max_transfer_size =>
            /\ relay[s].pc = "done"
            /\ relay[s].reason = "reached transfer size limit"
            /\ forwarded[s] = SubSeq(file_body[s], 1, Len(file_body[s]) - 1)

\* C6 witness: a relay forwarded a chunk and then stopped at the limit.
C6_Witness ==
    \E s \in Senders :
        /\ relay[s].reason = "reached transfer size limit"
        /\ forwarded[s] # <<>>
        /\ Bytes(file_body[s]) > max_transfer_size

\* One GET that finds no record under its id.
C7_Step ==
    \A r \in Receivers :
        RecvStep(r) /\ ~ContainsKey(connections, recv'[r].id) =>
            /\ recv'[r].status = 404
            /\ recv'[r].stream = NoStream
            /\ \A q \in Receivers \ {r} : recv'[q] = recv[q]
            /\ UNCHANGED <<connections, next_connection_idx, send, now, idloop,
                           routed, reaper, on_completed, response, relay,
                           file_body, forwarded>>

\* C7: a GET for an id that is not pending (unknown, already claimed or
\* already reaped) answers 404, obtains no body and changes nothing but the
\* request itself.
C7_NotFoundNoChange == [][C7_Step]_vars

\* C7 witness: a GET for an id was answered 404 while the relay of the
\* upload claimed earlier under that id is still running with a chunk
\* forwarded.
C7_Witness ==
    \E r1, r2 \in Receivers :
        /\ r1 < r2
        /\ recv[r1].status = 200
        /\ recv[r2].status = 404
        /\ recv[r2].id = recv[r1].id
        /\ Running(recv[r1].stream)
        /\ forwarded[recv[r1].stream] # <<>>

\* One admitted POST, and the records of the uploads not yet resolved.
C8_InsertStep ==
    \A s \in Senders : SendStep(s) /\ send'[s].status = 200 =>
        /\ ~ContainsKey(connections, send'[s].id)
        /\ DOMAIN connections' = DOMAIN connections \cup {send'[s].id}
        /\ \A i \in DOMAIN connections : connections'[i] = connections[i]
        /\ \A c \in Senders \ {s} : on_completed'[c] = on_completed[c]

C8_OwnRecord ==
    /\ \A s \in Senders :
        send[s].status = 200 /\ relay[s].pc = "none" /\ ~reaper[s].reaped =>
            /\ Pending(s)
            /\ connections[send[s].id].file_body = s
            /\ connections[send[s].id].on_completed = s
            /\ on_completed[s] = "held"
    /\ \A i, j \in DOMAIN connections : i # j =>
        /\ connections[i].file_body # connections[j].file_body
        /\ connections[i].on_completed # connections[j].on_completed
        /\ connections[i].idx # connections[j].idx

\* C8: an admitted POST is given an id that is not pending at the insertion
\* and leaves every other record as it was; every admitted upload that was
\* neither claimed nor reaped is stored under its own id with its own body
\* and its own, unresolved, completion channel, and no two records share a
\* body or a channel.
C8_FreshId == []C8_OwnRecord /\ [][C8_InsertStep]_vars

\* C8 witness: two records are pending and a POST whose id loop met a
\* collision was rejected, so the generator did return a pending name.
C8_Witness ==
    /\ Len_(connections) = max_active_connections
    /\ \E s1, s2 \in Senders :
        /\ s1 < s2
        /\ send[s1].status = 503
        /\ send[s2].status = 200
        /\ next_connection_idx = max_active_connections

\* One rejected POST.
C9_Step ==
    \A s \in Senders : SendStep(s) /\ send'[s].status = 503 =>
        /\ send'[s].id = NoId
        /\ \A q \in Senders \ {s} : send'[q] = send[q]
        /\ UNCHANGED <<connections, next_connection_idx, reaper, on_completed,
                       response, recv, relay, file_body, forwarded>>

\* C9: a POST answered 503 inserts no record, draws no sequence number,
\* spawns no reaper and changes nothing but the request itself.
C9_RejectNoTrace == [][C9_Step]_vars

\* C9 witness: a POST was answered 503 by the retry bound: fewer uploads
\* were ever admitted than max_active_connections.
C9_Witness ==
    /\ next_connection_idx < max_active_connections
    /\ Len_(connections) = 1
    /\ \E s \in Senders : send[s].status = 503

\* C10 as stated: pending records plus running relays never exceed
\* max_active_connections.
C10_PendingPlusRunning ==
    Len_(connections) + Cardinality({s \in Senders : Running(s)})
        <= max_active_connections

\* C10 as amended: the ceiling bounds the pending records alone.  A claimed
\* record has left the registry, so a running relay is no pending record and
\* is not counted.
C10_PendingOnly ==
    /\ Cardinality({s \in Senders : Pending(s)}) <= max_active_connections
    /\ \A s \in Senders : Running(s) => ~Pending(s)
    /\ \A i \in DOMAIN connections : relay[connections[i].file_body].pc = "none"

\* C10 witness: pending records and running relays together exceed the
\* ceiling.
C10_Witness ==
    /\ Len_(connections) = max_active_connections
    /\ \E s \in Senders : Running(s)

\* C11: a PUT / is routed to the send handler exactly like a POST /, and is
\* not answered 404.
C11_PutIsSend ==
    routed.pc = "done" /\ routed.path = Root /\ routed.method \in {"POST", "PUT"} =>
        routed.handler = "handle_send"

\* C12: claim and reap are mutually exclusive per record.  Of an admitted
\* upload exactly one holds at any moment: its record is pending, a GET
\* obtained its body, or its reaper removed its record.  So a record that
\* was claimed is never reaped, a record that was reaped is never obtained
\* by a GET, and a record that is gone was removed by exactly one of them;
\* once the reaper has fired the record is gone.
C12_ClaimXorReap ==
    \A s \in Senders : send[s].status = 200 =>
        /\ Pending(s) \/ Claimants(s) # {} \/ reaper[s].reaped
        /\ ~(Pending(s) /\ Claimants(s) # {})
        /\ ~(Pending(s) /\ reaper[s].reaped)
        /\ ~(Claimants(s) # {} /\ reaper[s].reaped)
        /\ reaper[s].pc = "done" => ~Pending(s)

\* C12 witness: two uploads under different ids; the body of one was
\* obtained by a GET and its reaper fired afterwards without removing
\* anything, the other was reaped and a GET for its id was answered 404.
C12_Witness ==
    \E s1, s2 \in Senders, r \in Receivers :
        /\ send[s1].status = 200 /\ send[s2].status = 200
        /\ send[s1].id # send[s2].id
        /\ Claimants(s1) # {}
        /\ reaper[s1].pc = "done" /\ ~reaper[s1].reaped
        /\ reaper[s2].reaped
        /\ recv[r].id = send[s2].id /\ recv[r].status = 404

\* C13: the reaper only removes the record it was scheduled for.  The record
\* of an admitted upload stays in the registry, under its id and with its
\* sequence number, until a GET claims it or its own reaper fires: the reaper
\* of an earlier upload under the same id does not remove it.
C13_OnlyOwnRecord ==
    \A s \in Senders :
        send[s].status = 200 /\ Claimants(s) = {} /\ reaper[s].pc = "sleeping"
            => Pending(s)

\* C13 witness: an upload was claimed, a later upload was registered under
\* the same id, the reaper of the earlier one has fired and the later record
\* is still pending.
C13_Witness ==
    \E s1, s2 \in Senders :
        /\ s1 < s2
        /\ send[s1].status = 200 /\ send[s2].status = 200
        /\ send[s1].id = send[s2].id
        /\ Claimants(s1) # {}
        /\ reaper[s1].pc = "done"
        /\ reaper[s2].pc = "sleeping"
        /\ Pending(s2)

\* The reaper of an upload fires after a GET obtained the body of the upload.
C14_Step ==
    \A s \in Senders :
        reaper[s].pc = "sleeping" /\ reaper'[s].pc = "done" /\ Claimants(s) # {} =>
            /\ reaper' = [reaper EXCEPT ![s].pc = "done"]
            /\ UNCHANGED <<connections, next_connection_idx, send,
                           on_completed, response, recv, relay, file_body,
                           forwarded, now, idloop, routed>>

\* C14: a reaper that fires after its record was claimed is a no-op.  It
\* removes nothing and leaves the registry, the relay of the claimed upload,
\* its completion channel, its POST response and everything else as it was.
C14_ReapAfterClaim == [][C14_Step]_vars

\* C14 witness: the reaper of a claimed upload has fired, removed nothing,
\* and the relay of the upload is running with a chunk forwarded and its
\* POST response open.
C14_Witness ==
    \E s \in Senders :
        /\ Claimants(s) # {}
        /\ reaper[s].pc = "done" /\ ~reaper[s].reaped
        /\ Running(s)
        /\ forwarded[s] # <<>>
        /\ response[s].open

\* The chunks forwarded are the first of the chunks read.
C15_Prefix ==
    \A s \in Senders :
        /\ Len(forwarded[s]) <= Len(file_body[s])
        /\ forwarded[s] = SubSeq(file_body[s], 1, Len(forwarded[s]))
        /\ relay[s].pc = "none" => file_body[s] = <<>>

\* One step reads at most one chunk, and forwards nothing or that chunk.
C15_Step ==
    \A s \in Senders :
        \/ file_body'[s] = file_body[s] /\ forwarded'[s] = forwarded[s]
        \/ \E chunk \in Chunks :
              /\ file_body'[s] = Append(file_body[s], chunk)
              /\ forwarded'[s] \in {forwarded[s], Append(forwarded[s], chunk)}

\* C15: the relay preserves order.  At every moment the chunks forwarded to
\* the receiver are a prefix of the chunks read from the sender; a step
\* forwards nothing but the chunk it has just read, after the chunks
\* forwarded before, so no chunk is reordered or forwarded twice; nothing
\* is read or forwarded of an upload that no GET obtained.
C15_OrderPreserved == []C15_Prefix /\ [][C15_Step]_vars

\* C15 witness: a relay forwarded two different chunks, an error first and
\* data after it.
C15_Witness ==
    \E s \in Senders :
        /\ Len(forwarded[s]) = 2
        /\ ~forwarded[s][1].ok
        /\ forwarded[s][2].ok

\* C16: a relay that holds a chunk the receiver has not taken does not hold
\* it for ever: the chunk timer ends the wait, so the relay leaves the yield
\* point (the chunk is taken, the receiver disconnects, or the relay
\* terminates and fires the completion signal).
C16_ReceiverStallTimeout ==
    \A s \in Senders : (relay[s].pc = "yield") ~> (relay[s].pc # "yield")

\* One step of a relay that waits in select!, under the clock.
C17_Step ==
    \A s \in Senders :
        /\ relay[s].pc = "select" /\ relay'[s].reason = "reached chunk time limit" =>
              now = relay[s].wait_start + chunk_timeout
        /\ relay[s].pc = "select" /\ relay'[s].pc \in {"yield", "done"}
              /\ relay'[s].reason # "reached chunk time limit" =>
              now < relay[s].wait_start + chunk_timeout
        /\ relay[s].pc # "select" /\ relay'[s].pc = "select" =>
              relay'[s].wait_start = now

C17_Waiting ==
    \A s \in Senders :
        /\ relay[s].pc = "select" => now <= relay[s].wait_start + chunk_timeout
        /\ relay[s].reason = "reached chunk time limit" => relay[s].pc = "done"

\* C17: the sender-stall timeout is per chunk.  A relay terminates with
\* "reached chunk time limit" exactly when chunk_timeout has passed since
\* the start of the current wait; a chunk or the end of the body is taken
\* only before that; a wait never lasts longer than chunk_timeout; and every
\* wait starts its timer anew, whatever the transfer has taken so far.
C17_PerChunkTimeout == []C17_Waiting /\ [][C17_Step]_vars

\* C17 witness: a transfer has lasted longer than chunk_timeout, a chunk was
\* forwarded, and its relay is waiting for the next chunk with time left.
C17_Witness ==
    \E s \in Senders :
        /\ relay[s].pc = "select"
        /\ forwarded[s] # <<>>
        /\ now > relay[s].started + chunk_timeout
        /\ now < relay[s].wait_start + chunk_timeout

\* C18: the id loop tries up to MaxTries (64) candidates: it gives up exactly
\* when the first 64 names of the generator are all pending, and otherwise
\* it breaks with the first of them that is not pending.
C18_SixtyFourCandidates ==
    idloop.pc = "done" =>
        LET free == {n \in 1..MaxTries : NextName(idloop.gen, n) \notin idloop.pending}
        IN  IF free = {} THEN idloop.id = NoId
            ELSE \E n \in free :
                    /\ \A m \in free : n <= m
                    /\ idloop.id = NextName(idloop.gen, n)

\* C19 as stated: an error chunk read from the sender is forwarded at its
\* position and is counted toward the transferred size.
C19_ErrorForwardedAndCounted ==
    \A s \in Senders : \A i \in 1..Len(file_body[s]) :
        ~file_body[s][i].ok =>
            /\ i <= Len(forwarded[s]) /\ forwarded[s][i] = file_body[s][i]
            /\ relay[s].transferred_bytes > Bytes(file_body[s])

\* C19 as amended: an error chunk read from the sender is forwarded at its
\* position; the transferred size is the bytes of the data chunks read, an
\* error chunk adds nothing to it and never ends the relay.
C19_ErrorForwardedNotCounted ==
    \A s \in Senders :
        /\ \A i \in 1..Len(file_body[s]) :
            ~file_body[s][i].ok =>
                i <= Len(forwarded[s]) /\ forwarded[s][i] = file_body[s][i]
        /\ relay[s].transferred_bytes = Bytes(file_body[s])
        /\ relay[s].reason = "reached transfer size limit" =>
                file_body[s][Len(file_body[s])].ok

\* C19 witness: a relay forwarded data and then an error chunk, and its
\* transferred size is that of the data.
C19_Witness ==
    \E s \in Senders :
        /\ Len(forwarded[s]) = 2
        /\ forwarded[s][1].ok
        /\ ~forwarded[s][2].ok
        /\ relay[s].transferred_bytes = forwarded[s][1].len

\* C20: the chunk that brings the transferred size to max_transfer_size or
\* beyond is not forwarded: the bytes forwarded stay strictly below
\* max_transfer_size, and of a body of max_transfer_size bytes or more the
\* last chunk read is never forwarded.
C20_StrictlyBelowLimit ==
    \A s \in Senders :
        /\ Bytes(forwarded[s]) < max_transfer_size
        /\ Bytes(file_body[s]) >= max_transfer_size =>
              Len(forwarded[s]) < Len(file_body[s])

\* C20 witness: a body of exactly max_transfer_size bytes in two chunks; the
\* relay forwarded the first and stopped at the second.
C20_Witness ==
    \E s \in Senders :
        /\ Bytes(file_body[s]) = max_transfer_size
        /\ Len(file_body[s]) = 2
        /\ Len(forwarded[s]) = 1
        /\ relay[s].pc = "done"

====
